---- MODULE Spec2Model ----
(***************************************************************************)
(* A model of GitHubSecAudit.py: the run of the __main__ block (collectors, *)
(* per-repository checks, report), and the pure functions                  *)
(* check_codeowners_file, check_branch_protection and generate_html_report *)
(* over bounded sets of upstream responses.                                *)
(***************************************************************************)
EXTENDS Integers, Sequences, FiniteSets, TLC

\* ------------------------------------------------------------------ bounds
MaxRepos == 2
MaxMembers == 2
MaxPerPage == 2
ReportRepos == 1

\* ------------------------------------------------------------- the state
VARIABLES
    pc,                         \* position of the run / of the function call
    kind,                       \* upstream: the target's account type
    upstream,                   \* upstream: sizes of the listings and the page size
    repos,                      \* __main__: repos (a Python list of {'name': ..})
    members,                    \* __main__: members (Python value)
    codeowners,                 \* __main__: codeowners (Python value)
    codeowners_status,          \* __main__: dict repo name -> {branch: status}
    branch_protection_summary,  \* __main__: dict repo name -> finding dict
    idx,                        \* loop position over repos in the two check loops
    report,                     \* the HTML artifact: written?, counts, rows
    responses,                  \* set of <<url, status>> of the collection requests made
    error,                      \* the function an uncaught exception escaped from
    args,                       \* function-level specifications: the inputs
    result                      \* function-level specifications: the outcome

vars == <<pc, kind, upstream, repos, members, codeowners, codeowners_status,
          branch_protection_summary, idx, report, responses, error, args, result>>

\* ------------------------------------------------------- Python values
\* Python is dynamically typed: the same variable holds a list or the string
\* 'Permission Denied'. Every Python value is a record of one shape, tagged.
PyNone == [t |-> "none", n |-> 0, s |-> "", b |-> FALSE, l |-> <<>>]
PyInt(n) == [t |-> "int", n |-> n, s |-> "", b |-> FALSE, l |-> <<>>]
PyStr(s) == [t |-> "str", n |-> 0, s |-> s, b |-> FALSE, l |-> <<>>]
PyBool(b) == [t |-> "bool", n |-> 0, s |-> "", b |-> b, l |-> <<>>]
PyList(l) == [t |-> "list", n |-> 0, s |-> "", b |-> FALSE, l |-> l]

\* bool(v)
Truthy(v) ==
    CASE v.t = "none" -> FALSE
      [] v.t = "int" -> v.n # 0
      [] v.t = "str" -> v.s # ""
      [] v.t = "bool" -> v.b
      [] v.t = "list" -> v.l # <<>>

\* str(v)
PyStrOf(v) ==
    CASE v.t = "none" -> "None"
      [] v.t = "int" -> ToString(v.n)
      [] v.t = "str" -> v.s
      [] v.t = "bool" -> (IF v.b THEN "True" ELSE "False")
      [] v.t = "list" -> "[...]"

\* len(v) of a list or a str
PyLen(v) == IF v.t = "str" THEN Len(v.s) ELSE Len(v.l)

\* dict.get(key, default) on a dict modelled as a function
Get(d, key, default) == IF key \in DOMAIN d THEN d[key] ELSE default

\* An insertion-ordered dict (the two top-level dicts of __main__): a sequence
\* of entries with distinct keys.
EmptyDict == <<>>
DictKeys(d) == [k \in 1..Len(d) |-> d[k].key]
DictHas(d, key) == \E k \in 1..Len(d) : d[k].key = key
DictGet(d, key) == d[CHOOSE k \in 1..Len(d) : d[k].key = key].value
DictSet(d, key, value) ==
    IF DictHas(d, key)
    THEN [k \in 1..Len(d) |-> IF d[k].key = key THEN [key |-> key, value |-> value] ELSE d[k]]
    ELSE Append(d, [key |-> key, value |-> value])

\* ------------------------------------------------------------ constants
ORG_NAME == "acme"
PERMISSION_DENIED == PyStr("Permission Denied")

Statuses == {200, 403, 404, 500}

UsersUrl(org_name) == "/users/" \o org_name
OrgMembersUrl(org_name) == "/orgs/" \o org_name \o "/members"
OrgAdminsUrl(org_name) == "/orgs/" \o org_name \o "/members?role=admin"
OrgReposUrl(org_name) == "/orgs/" \o org_name \o "/repos"
UserReposUrl(org_name) == "/users/" \o org_name \o "/repos"

\* response.raise_for_status(): raises for 4xx and 5xx
RaisesForStatus(status) == status >= 400 /\ status < 600

\* The outcome of a call: a returned value or an uncaught exception, with the
\* requests it made.
Return(v, reqs) == [exc |-> FALSE, value |-> v, reqs |-> reqs]
Raise(reqs) == [exc |-> TRUE, value |-> PyNone, reqs |-> reqs]

\* ------------------------------------------------------------- upstream
RepoName(j) == "repo" \o ToString(j)
MemberLogin(j) == "user" \o ToString(j)

RepoItems(n) == [j \in 1..n |-> [name |-> RepoName(j)]]
MemberItems(n) == [j \in 1..n |-> [login |-> MemberLogin(j)]]

\* A listing of n items is served in pages of perPage items; an empty
\* listing is one empty page.
NumPages(n, perPage) == IF n = 0 THEN 1 ELSE (n + perPage - 1) \div perPage
PageOf(items, perPage, k) ==
    SubSeq(items, (k - 1) * perPage + 1,
           IF k * perPage < Len(items) THEN k * perPage ELSE Len(items))
PageResps(items, perPage, statuses) ==
    [k \in 1..NumPages(Len(items), perPage) |->
        [status |-> statuses[k],
         json |-> PageOf(items, perPage, k),
         next |-> k < NumPages(Len(items), perPage)]]

\* What the upstream answers on a listing url: /orgs/<name>/... does not
\* exist for a user account.
NotFoundResps(statuses) ==
    << [status |-> IF statuses[1] = 200 THEN 404 ELSE statuses[1], json |-> <<>>, next |-> FALSE] >>
Serve(k, u, statuses) ==
    [url \in {OrgReposUrl(ORG_NAME), UserReposUrl(ORG_NAME), OrgMembersUrl(ORG_NAME), OrgAdminsUrl(ORG_NAME)} |->
        IF k = "User" /\ url # UserReposUrl(ORG_NAME) THEN NotFoundResps(statuses)
        ELSE IF url \in {OrgReposUrl(ORG_NAME), UserReposUrl(ORG_NAME)}
             THEN PageResps(RepoItems(u.nRepos), u.perPage, statuses)
        ELSE IF url = OrgMembersUrl(ORG_NAME)
             THEN PageResps(MemberItems(u.nMembers), u.perPage, statuses)
        ELSE PageResps(MemberItems(u.nAdmins), u.perPage, statuses)]
TypeResp(k, status) == [status |-> status, json |-> [type |-> k]]
MaxPages == IF MaxRepos > MaxMembers THEN MaxRepos ELSE MaxMembers
PageStatuses == [1..MaxPages -> Statuses]

\* ----------------------------------------------------------- collectors
\* is_organization (lines 56-63)
is_organization(org_name, resp) ==
    LET req == {<<UsersUrl(org_name), resp.status>>} IN
    IF resp.status = 403 THEN Return(PERMISSION_DENIED, req)
    ELSE IF RaisesForStatus(resp.status) THEN Raise(req)
    ELSE Return(PyBool(Get(resp.json, "type", "") = "Organization"), req)

\* The `while url:` loop of get_org_repos (lines 99-107) and of
\* get_org_members (lines 72-80): resps[k] is the response to the k-th page
\* request, and the 'next' link leads to page k + 1.
RECURSIVE Paginate(_, _, _, _)
Paginate(url, resps, k, acc) ==
    IF k > Len(resps) THEN Return(PyList(acc), {})
    ELSE LET r == resps[k]
             req == {<<url, r.status>>} IN
         IF r.status = 403 THEN Return(PERMISSION_DENIED, req)
         ELSE IF RaisesForStatus(r.status) THEN Raise(req)
         ELSE LET rest == Paginate(url, resps, IF r.next THEN k + 1 ELSE Len(resps) + 1,
                                   acc \o r.json)
              IN [rest EXCEPT !.reqs = @ \cup req]

\* The url get_org_repos lists from (line 97)
ReposUrlAlwaysOrg(org_name, org_type) == OrgReposUrl(org_name)
ReposUrl(org_name, org_type) ==
    IF Truthy(org_type) THEN OrgReposUrl(org_name) ELSE UserReposUrl(org_name)

\* get_org_repos (lines 93-107)
get_org_repos(org_name, typeResp, listing) ==
    LET org_type == is_organization(org_name, typeResp) IN
    IF org_type.exc THEN org_type
    ELSE IF org_type.value = PERMISSION_DENIED THEN org_type
    ELSE LET url == ReposUrl(org_name, org_type.value)
             r == Paginate(url, listing[url], 1, <<>>)
         IN [r EXCEPT !.reqs = @ \cup org_type.reqs]

\* get_org_members (lines 65-80): the type lookup is made twice
get_org_members(org_name, typeResp1, typeResp2, listing) ==
    LET first == is_organization(org_name, typeResp1) IN
    IF first.exc \/ first.value = PERMISSION_DENIED THEN first
    ELSE LET second == is_organization(org_name, typeResp2)
             reqs == first.reqs \cup second.reqs IN
         IF second.exc THEN Raise(reqs)
         ELSE IF ~Truthy(second.value)
              THEN Return(PyList(<< [login |-> org_name] >>), reqs)
         ELSE LET url == OrgMembersUrl(org_name)
                  r == Paginate(url, listing[url], 1, <<>>)
              IN [r EXCEPT !.reqs = @ \cup reqs]

\* get_org_codeowners (lines 82-91): one request, no loop over 'next'
get_org_codeowners(org_name, typeResp, listing) ==
    LET org_type == is_organization(org_name, typeResp) IN
    IF org_type.exc THEN org_type
    ELSE IF ~Truthy(org_type.value) THEN Return(PyList(<<>>), org_type.reqs)
    ELSE LET url == OrgAdminsUrl(org_name)
             response == listing[url][1]
             reqs == org_type.reqs \cup {<<url, response.status>>} IN
         IF response.status = 403 THEN Return(PERMISSION_DENIED, reqs)
         ELSE IF RaisesForStatus(response.status) THEN Raise(reqs)
         ELSE Return(PyList([j \in 1..Len(response.json) |-> response.json[j].login]), reqs)

\* ------------------------------------------------ per-repository checks
RepoUrl(org_name, repo_name) == "/repos/" \o org_name \o "/" \o repo_name

\* get_default_branch (lines 109-114)
get_default_branch(org_name, repo_name, resp) ==
    LET req == {<<RepoUrl(org_name, repo_name), resp.status>>} IN
    IF RaisesForStatus(resp.status) THEN Raise(req)
    ELSE Return(PyStr(Get(resp.json, "default_branch", "main")), req)

\* line 118
locations_to_check == << ".github/CODEOWNERS", "CODEOWNERS", "docs/CODEOWNERS" >>

ContentsUrl(org_name, repo_name, location, default_branch) ==
    RepoUrl(org_name, repo_name) \o "/contents/" \o location \o "?ref=" \o default_branch

\* base64.b64decode(..).decode('utf-8') on the contents served, as characters
B64Decode(content) ==
    CASE content = "" -> <<>>
      [] content = "IAo=" -> << " ", "\n" >>
      [] content = "KiBAYWxpY2UK" -> << "*", " ", "@", "a", "l", "i", "c", "e", "\n" >>

Whitespace == {" ", "\n", "\t", "\r"}
RECURSIVE LStrip(_)
LStrip(chars) ==
    IF chars # <<>> /\ Head(chars) \in Whitespace THEN LStrip(Tail(chars)) ELSE chars
RECURSIVE RStrip(_)
RStrip(chars) ==
    IF chars # <<>> /\ chars[Len(chars)] \in Whitespace
    THEN RStrip(SubSeq(chars, 1, Len(chars) - 1)) ELSE chars
\* str.strip()
Strip(chars) == RStrip(LStrip(chars))

\* One pass of the body of `for location in locations_to_check` (lines
\* 122-136): the new branch_status and whether the loop breaks.
ProbeStepNoBreakOnError(response, location, default_branch, branch_status) ==
    IF response.status = 200
    THEN LET codeowners_content == IF "content" \in DOMAIN response.json
                                   THEN PyStr(response.json["content"]) ELSE PyNone IN
         IF Truthy(codeowners_content)
         THEN [status |-> IF Strip(B64Decode(codeowners_content.s)) # <<>>
                          THEN "Set and Valid" ELSE "Set but Invalid (Empty)",
               brk |-> TRUE]
         ELSE [status |-> branch_status, brk |-> FALSE]
    ELSE [status |-> branch_status, brk |-> FALSE]
ProbeStep(response, location, default_branch, branch_status) ==
    IF response.status = 200
    THEN LET codeowners_content == IF "content" \in DOMAIN response.json
                                   THEN PyStr(response.json["content"]) ELSE PyNone IN
         IF Truthy(codeowners_content)
         THEN [status |-> IF Strip(B64Decode(codeowners_content.s)) # <<>>
                          THEN "Set and Valid" ELSE "Set but Invalid (Empty)",
               brk |-> TRUE]
         ELSE [status |-> branch_status, brk |-> FALSE]
    ELSE IF response.status = 403
    THEN [status |-> "Permission Denied", brk |-> TRUE]
    ELSE IF response.status # 404
    THEN [status |-> "Error Checking " \o location \o " for " \o default_branch \o " branch",
          brk |-> TRUE]
    ELSE [status |-> branch_status, brk |-> FALSE]

\* The for loop of check_codeowners_file (lines 121-136), from location k on
RECURSIVE ProbeLocations(_, _, _, _, _, _)
ProbeLocations(k, org_name, repo_name, contents, default_branch, branch_status) ==
    IF k > Len(locations_to_check) THEN [status |-> branch_status, reqs |-> {}]
    ELSE LET location == locations_to_check[k]
             response == contents[location]
             req == {<<ContentsUrl(org_name, repo_name, location, default_branch), response.status>>}
             step == ProbeStep(response, location, default_branch, branch_status) IN
         IF step.brk THEN [status |-> step.status, reqs |-> req]
         ELSE LET rest == ProbeLocations(k + 1, org_name, repo_name, contents,
                                         default_branch, step.status)
              IN [rest EXCEPT !.reqs = @ \cup req]

\* check_codeowners_file (lines 116-138)
check_codeowners_file(org_name, repo_name, branchResp, contents) ==
    LET default_branch == get_default_branch(org_name, repo_name, branchResp) IN
    IF default_branch.exc THEN default_branch
    ELSE LET probe == ProbeLocations(1, org_name, repo_name, contents,
                                     default_branch.value.s, "Not Set (File Missing)")
         IN Return(default_branch.value.s :> PyStr(probe.status),
                   default_branch.reqs \cup probe.reqs)

ProtectionUrl(org_name, repo_name, default_branch) ==
    RepoUrl(org_name, repo_name) \o "/branches/" \o default_branch \o "/protection"

\* "Enabled" if protection_data.get(key, {}).get('enabled', False) else "Disabled"
EnabledOrDisabled(protection_data, key) ==
    IF Get(Get(protection_data, key, <<>>), "enabled", FALSE) THEN "Enabled" ELSE "Disabled"

\* The finding of a non-200 protection response (lines 170-175)
ProtectionSentinelNotFoundAsDenied(status, default_branch) ==
    IF status = 404 THEN default_branch :> PyStr("Permission Denied")
    ELSE IF status = 403 THEN default_branch :> PyStr("Permission Denied")
    ELSE default_branch :> PyStr("Error Checking Protection (" \o ToString(status) \o ")")
ProtectionSentinel(status, default_branch) ==
    IF status = 404 THEN default_branch :> PyStr("No Protection")
    ELSE IF status = 403 THEN default_branch :> PyStr("Permission Denied")
    ELSE default_branch :> PyStr("Error Checking Protection (" \o ToString(status) \o ")")

\* The finding built from the protection response (lines 145-175)
ProtectionFinding(response, default_branch) ==
    IF response.status = 200
    THEN LET protection_data == response.json
             pr_reviews == Get(protection_data, "required_pull_request_reviews", <<>>)
         IN ("Branch" :> PyStr(default_branch))
            @@ ("PR Approvals Required" :> PyInt(Get(pr_reviews, "required_approving_review_count", 0)))
            @@ ("Dismiss Stale Reviews" :>
                    PyStr(IF Get(pr_reviews, "dismiss_stale_reviews", FALSE)
                          THEN "Enabled" ELSE "Disabled"))
            @@ ("Signed Commits" :> PyStr(EnabledOrDisabled(protection_data, "required_signatures")))
            @@ ("Enforce Admins" :> PyStr(EnabledOrDisabled(protection_data, "enforce_admins")))
            @@ ("Allow Force Pushes" :> PyStr(EnabledOrDisabled(protection_data, "allow_force_pushes")))
            @@ ("Allow Deletions" :> PyStr(EnabledOrDisabled(protection_data, "allow_deletions")))
            @@ ("Required Conversation Resolution" :>
                    PyStr(EnabledOrDisabled(protection_data, "required_conversation_resolution")))
    ELSE ProtectionSentinel(response.status, default_branch)

\* check_branch_protection (lines 140-175)
check_branch_protection(org_name, repo_name, branchResp, response) ==
    LET default_branch == get_default_branch(org_name, repo_name, branchResp) IN
    IF default_branch.exc THEN default_branch
    ELSE Return(ProtectionFinding(response, default_branch.value.s),
                default_branch.reqs
                    \cup {<<ProtectionUrl(org_name, repo_name, default_branch.value.s),
                            response.status>>})

\* --------------------------------------- upstream answers to the checks
BranchResps ==
    {[status |-> 200, json |-> <<>>], [status |-> 200, json |-> [default_branch |-> "dev"]]}
        \cup {[status |-> s, json |-> <<>>] : s \in Statuses \ {200}}

ContentResps ==
    {[status |-> s, json |-> <<>>] : s \in Statuses \ {200}}
        \cup {[status |-> 200, json |-> [content |-> c]] : c \in {"", "IAo=", "KiBAYWxpY2UK"}}
Locations == {locations_to_check[k] : k \in 1..Len(locations_to_check)}
Contents == [Locations -> ContentResps]

ApprovalCounts == {0, 1, 2, 5}
ReviewSettings ==
    {<<>>, [dismiss_stale_reviews |-> TRUE]}
        \cup {[required_approving_review_count |-> n] : n \in ApprovalCounts}
SwitchKeys == {"required_signatures", "enforce_admins", "allow_force_pushes",
               "allow_deletions", "required_conversation_resolution"}
SwitchSets == {{}, SwitchKeys} \cup {{key} : key \in SwitchKeys}
\* A protection body: the switches in `on` are enabled; the others are
\* present and disabled, or absent.
ProtectionBody(reviews, on, present) ==
    [key \in (IF present THEN SwitchKeys ELSE on)
                \cup (IF reviews = <<>> THEN {} ELSE {"required_pull_request_reviews"}) |->
        IF key = "required_pull_request_reviews" THEN reviews ELSE [enabled |-> key \in on]]
ProtectionBodies ==
    {ProtectionBody(rv, on, present) : rv \in ReviewSettings, on \in SwitchSets, present \in BOOLEAN}
ProtectionResps ==
    {[status |-> s, json |-> <<>>] : s \in (Statuses \cup {502}) \ {200}}
        \cup {[status |-> 200, json |-> body] : body \in ProtectionBodies}

\* ------------------------------------------------------------ the report
\* iterating a str yields its characters
CharsOf(s) ==
    CASE s = "" -> <<>>
      [] s = "Permission Denied" ->
            << "P", "e", "r", "m", "i", "s", "s", "i", "o", "n", " ", "D", "e", "n", "i", "e", "d" >>

\* current >= n on Python numbers (bool is a subclass of int)
PyGe(v, n) ==
    CASE v.t = "int" -> v.n >= n
      [] v.t = "bool" -> (IF v.b THEN 1 ELSE 0) >= n
      [] OTHER -> FALSE

\* The checks list of one repository (lines 316-323)
checks(protection_info) ==
    << [config |-> "PR Approvals Required",
        current |-> Get(protection_info, "PR Approvals Required", PyInt(0)), expected |-> "2+"],
       [config |-> "Signed Commits",
        current |-> Get(protection_info, "Signed Commits", PyBool(FALSE)), expected |-> "Enabled"],
       [config |-> "Enforce Admins",
        current |-> Get(protection_info, "Enforce Admins", PyBool(FALSE)), expected |-> "Enabled"],
       [config |-> "Allow Force Pushes",
        current |-> Get(protection_info, "Allow Force Pushes", PyBool(FALSE)), expected |-> "Disabled"],
       [config |-> "Allow Deletions",
        current |-> Get(protection_info, "Allow Deletions", PyBool(FALSE)), expected |-> "Disabled"],
       [config |-> "Required Conversation Resolution",
        current |-> Get(protection_info, "Required Conversation Resolution", PyBool(FALSE)),
        expected |-> "Enabled"] >>

\* status_class (lines 326-328)
StatusClassMoreThanTwo(config, current, expected) ==
    IF PyStrOf(current) = expected \/ (config = "PR Approvals Required" /\ PyGe(current, 3))
    THEN "success" ELSE "issue"
StatusClass(config, current, expected) ==
    IF PyStrOf(current) = expected \/ (config = "PR Approvals Required" /\ PyGe(current, 2))
    THEN "success" ELSE "issue"

\* The Current Value cell (line 334)
CurrentShown(current) ==
    IF current = PyBool(TRUE) THEN "Enabled"
    ELSE IF current = PyBool(FALSE) THEN "Disabled"
    ELSE PyStrOf(current)

\* The rows of one repository's branch protection (lines 325-337)
ProtectionRows(repo, protection_info) ==
    LET cs == checks(protection_info) IN
    [k \in 1..Len(cs) |->
        [repo |-> repo,
         config |-> cs[k].config,
         status |-> IF StatusClass(cs[k].config, cs[k].current, cs[k].expected) = "success"
                    THEN "Correct" ELSE "Incorrect",
         current |-> CurrentShown(cs[k].current),
         expected |-> cs[k].expected]]

\* color_class (lines 341-342)
ColorClass(detail) == IF detail = PyStr("Set and Valid") THEN "success" ELSE "issue"

\* status.items(): the entries of a finding dict, in some order
RECURSIVE Items(_)
Items(d) ==
    IF DOMAIN d = {} THEN <<>>
    ELSE LET key == CHOOSE x \in DOMAIN d : TRUE IN
         << [key |-> key, value |-> d[key]] >> \o Items([x \in DOMAIN d \ {key} |-> d[x]])

\* The CODEOWNERS rows of one repository (lines 340-351)
CodeownersRows(repo, status) ==
    LET items == Items(status) IN
    [k \in 1..Len(items) |->
        [repo |-> repo,
         config |-> "CODEOWNERS Status",
         status |-> IF ColorClass(items[k].value) = "success" THEN "Correct" ELSE "Incorrect",
         current |-> PyStrOf(items[k].value),
         expected |-> "Set and Valid"]]

\* The two loops over the dicts (lines 315 and 339), from entry k on
RECURSIVE AllProtectionRows(_, _)
AllProtectionRows(summary, k) ==
    IF k > Len(summary) THEN <<>>
    ELSE ProtectionRows(summary[k].key, summary[k].value) \o AllProtectionRows(summary, k + 1)
RECURSIVE AllCodeownersRows(_, _)
AllCodeownersRows(status, k) ==
    IF k > Len(status) THEN <<>>
    ELSE CodeownersRows(status[k].key, status[k].value) \o AllCodeownersRows(status, k + 1)

NoReport ==
    [written |-> FALSE, file |-> "", repos_total |-> 0, members_total |-> 0,
     codeowners_total |-> 0, repo_list |-> <<>>, member_list |-> <<>>,
     owner_list |-> <<>>, rows |-> <<>>]

\* generate_html_report (lines 187-362). member['login'] on a character of a
\* str raises TypeError before anything is written.
generate_html_report(org_name, members_, codeowners_, codeowners_status_, summary) ==
    IF members_.t = "str" /\ CharsOf(members_.s) # <<>> THEN Raise({})
    ELSE Return(
        [written |-> TRUE,
         file |-> org_name \o "_audit_report.html",
         repos_total |-> Len(summary),
         members_total |-> PyLen(members_),
         codeowners_total |-> PyLen(codeowners_),
         repo_list |-> DictKeys(summary),
         member_list |-> [k \in 1..Len(members_.l) |-> members_.l[k].login],
         owner_list |-> IF codeowners_.t = "str" THEN CharsOf(codeowners_.s) ELSE codeowners_.l,
         rows |-> AllProtectionRows(summary, 1) \o AllCodeownersRows(codeowners_status_, 1)],
        {})

\* ---------------------------------------------------- the run (__main__)
Upstreams ==
    {[nRepos |-> r, nMembers |-> m, nAdmins |-> a, perPage |-> p] :
        r \in 0..MaxRepos, m \in 0..MaxMembers, a \in 0..MaxMembers, p \in 1..MaxPerPage}

\* The answers to the per-repository requests drawn in the run.
MainBranchResps == {[status |-> 200, json |-> <<>>], [status |-> 404, json |-> <<>>]}
MainContents ==
    {[location \in Locations |-> r] :
        r \in {[status |-> 404, json |-> <<>>], [status |-> 403, json |-> <<>>],
               [status |-> 200, json |-> [content |-> "KiBAYWxpY2UK"]]}}
MainProtectionResps ==
    {[status |-> 404, json |-> <<>>], [status |-> 403, json |-> <<>>],
     [status |-> 200,
      json |-> ProtectionBody([required_approving_review_count |-> 2], {"enforce_admins"}, FALSE)]}

Idle == <<>>

Init ==
    /\ pc = "get_org_repos"
    /\ kind \in {"Organization", "User"}
    /\ upstream \in {u \in Upstreams :
                        /\ u.nAdmins <= u.nMembers
                        /\ kind = "User" => u.nMembers = 0}
    /\ repos = <<>>
    /\ members = PyNone
    /\ codeowners = PyNone
    /\ codeowners_status = EmptyDict
    /\ branch_protection_summary = EmptyDict
    /\ idx = 0
    /\ report = NoReport
    /\ responses = {}
    /\ error = ""
    /\ args = Idle
    /\ result = Idle

Crash(where, reqs) ==
    /\ pc' = "crashed"
    /\ error' = where
    /\ responses' = responses \cup reqs

\* line 366-368
GetOrgRepos ==
    /\ pc = "get_org_repos"
    /\ \E s \in Statuses, ps \in PageStatuses :
        LET r == get_org_repos(ORG_NAME, TypeResp(kind, s), Serve(kind, upstream, ps)) IN
        IF r.exc
        THEN /\ Crash("get_org_repos", r.reqs)
             /\ UNCHANGED repos
        ELSE /\ responses' = responses \cup r.reqs
             /\ error' = error
             /\ IF r.value = PERMISSION_DENIED
                THEN pc' = "denied" /\ UNCHANGED repos
                ELSE pc' = "get_org_members" /\ repos' = r.value.l
    /\ UNCHANGED <<kind, upstream, members, codeowners, codeowners_status,
                   branch_protection_summary, idx, report, args, result>>

\* line 370
GetOrgMembers ==
    /\ pc = "get_org_members"
    /\ \E s1 \in Statuses, s2 \in Statuses, ps \in PageStatuses :
        LET r == get_org_members(ORG_NAME, TypeResp(kind, s1), TypeResp(kind, s2),
                                 Serve(kind, upstream, ps)) IN
        IF r.exc
        THEN /\ Crash("get_org_members", r.reqs)
             /\ UNCHANGED members
        ELSE /\ responses' = responses \cup r.reqs
             /\ error' = error
             /\ pc' = "get_org_codeowners"
             /\ members' = r.value
    /\ UNCHANGED <<kind, upstream, repos, codeowners, codeowners_status,
                   branch_protection_summary, idx, report, args, result>>

\* line 371
GetOrgCodeowners ==
    /\ pc = "get_org_codeowners"
    /\ \E s \in Statuses, ps \in PageStatuses :
        LET r == get_org_codeowners(ORG_NAME, TypeResp(kind, s), Serve(kind, upstream, ps)) IN
        IF r.exc
        THEN /\ Crash("get_org_codeowners", r.reqs)
             /\ UNCHANGED <<codeowners, idx>>
        ELSE /\ responses' = responses \cup r.reqs
             /\ error' = error
             /\ codeowners' = r.value
             /\ idx' = 1
             /\ pc' = IF Len(repos) = 0 THEN "generate_html_report" ELSE "check_codeowners_file"
    /\ UNCHANGED <<kind, upstream, repos, members, codeowners_status,
                   branch_protection_summary, report, args, result>>

\* One entry of the dict comprehension of line 372
CodeownersEntry(status, repo_name, finding) == DictSet(status, repo_name, finding)

\* line 372, one repository
CheckCodeowners ==
    /\ pc = "check_codeowners_file"
    /\ \E b \in MainBranchResps, c \in MainContents :
        LET r == check_codeowners_file(ORG_NAME, repos[idx].name, b, c) IN
        IF r.exc
        THEN /\ Crash("check_codeowners_file", {})
             /\ UNCHANGED <<codeowners_status, idx>>
        ELSE /\ codeowners_status' = CodeownersEntry(codeowners_status, repos[idx].name, r.value)
             /\ idx' = IF idx = Len(repos) THEN 1 ELSE idx + 1
             /\ pc' = IF idx = Len(repos) THEN "check_branch_protection" ELSE pc
             /\ UNCHANGED <<responses, error>>
    /\ UNCHANGED <<kind, upstream, repos, members, codeowners,
                   branch_protection_summary, report, args, result>>

\* protection_summary[repo_name] = branch_protection (line 183)
SummaryEntryOnlyOnSuccess(protection_summary, repo_name, branch_protection) ==
    IF "Branch" \in DOMAIN branch_protection
    THEN DictSet(protection_summary, repo_name, branch_protection)
    ELSE protection_summary
SummaryEntry(protection_summary, repo_name, branch_protection) ==
    DictSet(protection_summary, repo_name, branch_protection)

\* get_branch_protection_summary (lines 177-185), one repository
CheckBranchProtection ==
    /\ pc = "check_branch_protection"
    /\ \E b \in MainBranchResps, p \in MainProtectionResps :
        LET r == check_branch_protection(ORG_NAME, repos[idx].name, b, p) IN
        IF r.exc
        THEN /\ Crash("check_branch_protection", {})
             /\ UNCHANGED <<branch_protection_summary, idx>>
        ELSE /\ branch_protection_summary' =
                    SummaryEntry(branch_protection_summary, repos[idx].name, r.value)
             /\ idx' = idx + 1
             /\ pc' = IF idx = Len(repos) THEN "generate_html_report" ELSE pc
             /\ UNCHANGED <<responses, error>>
    /\ UNCHANGED <<kind, upstream, repos, members, codeowners,
                   codeowners_status, report, args, result>>

\* line 375
GenerateHtmlReport ==
    /\ pc = "generate_html_report"
    /\ LET r == generate_html_report(ORG_NAME, members, codeowners, codeowners_status,
                                     branch_protection_summary) IN
        IF r.exc
        THEN /\ Crash("generate_html_report", {})
             /\ UNCHANGED report
        ELSE /\ report' = r.value
             /\ pc' = "done"
             /\ UNCHANGED <<responses, error>>
    /\ UNCHANGED <<kind, upstream, repos, members, codeowners, codeowners_status,
                   branch_protection_summary, idx, args, result>>

Next ==
    \/ GetOrgRepos
    \/ GetOrgMembers
    \/ GetOrgCodeowners
    \/ CheckCodeowners
    \/ CheckBranchProtection
    \/ GenerateHtmlReport

Spec == Init /\ [][Next]_vars

\* --------------------------------- the functions on their own inputs
\* The variables of the run stay as constructed while a function is applied.
RunUntouched ==
    /\ kind = "Organization"
    /\ upstream = [nRepos |-> 1, nMembers |-> 0, nAdmins |-> 0, perPage |-> 1]
    /\ repos = RepoItems(1)
    /\ members = PyNone
    /\ codeowners = PyNone
    /\ codeowners_status = EmptyDict
    /\ branch_protection_summary = EmptyDict
    /\ idx = 1
    /\ report = NoReport
    /\ responses = {}
    /\ error = ""

InitCodeowners ==
    /\ pc = "call"
    /\ args \in [branch : BranchResps, contents : Contents]
    /\ result = Idle
    /\ RunUntouched

CallCheckCodeownersFile ==
    /\ pc = "call"
    /\ result' = check_codeowners_file(ORG_NAME, repos[idx].name, args.branch, args.contents)
    /\ pc' = "returned"
    /\ UNCHANGED <<kind, upstream, repos, members, codeowners, codeowners_status,
                   branch_protection_summary, idx, report, responses, error, args>>

NextCodeowners == CallCheckCodeownersFile

SpecCodeowners == InitCodeowners /\ [][NextCodeowners]_vars

InitProtection ==
    /\ pc = "call"
    /\ args \in [branch : BranchResps, response : ProtectionResps]
    /\ result = Idle
    /\ RunUntouched

CallCheckBranchProtection ==
    /\ pc = "call"
    /\ result' = check_branch_protection(ORG_NAME, repos[idx].name, args.branch, args.response)
    /\ pc' = "returned"
    /\ UNCHANGED <<kind, upstream, repos, members, codeowners, codeowners_status,
                   branch_protection_summary, idx, report, responses, error, args>>

NextProtection == CallCheckBranchProtection

SpecProtection == InitProtection /\ [][NextProtection]_vars

\* The findings the two checks return for a repository whose default branch
\* is "main", over all the answers of the upstream.
MainBranch == [status |-> 200, json |-> <<>>]
CodeownersFindings ==
    {check_codeowners_file(ORG_NAME, "repo", MainBranch, c).value : c \in Contents}
ProtectionFindings ==
    {check_branch_protection(ORG_NAME, "repo", MainBranch, r).value : r \in ProtectionResps}

\* The state __main__ is in when it calls generate_html_report, for up to
\* ReportRepos repositories of a user account.
InitReport ==
    /\ pc = "generate_html_report"
    /\ kind = "User"
    /\ \E n \in 0..ReportRepos :
        /\ upstream = [nRepos |-> n, nMembers |-> 0, nAdmins |-> 0, perPage |-> MaxPerPage]
        /\ repos = RepoItems(n)
        /\ \E co \in [1..n -> CodeownersFindings], bp \in [1..n -> ProtectionFindings] :
            /\ codeowners_status = [j \in 1..n |-> [key |-> RepoName(j), value |-> co[j]]]
            /\ branch_protection_summary = [j \in 1..n |-> [key |-> RepoName(j), value |-> bp[j]]]
        /\ idx = n + 1
    /\ members = PyList(<< [login |-> ORG_NAME] >>)
    /\ codeowners = PyList(<<>>)
    /\ report = NoReport
    /\ responses = {}
    /\ error = ""
    /\ args = Idle
    /\ result = Idle

NextReport == GenerateHtmlReport

SpecReport == InitReport /\ [][NextReport]_vars

\* ----------------------------------------------------------- the claims
\* How far the run has come: the function it is in, or was in when it stopped.
Order == << "get_org_repos", "get_org_members", "get_org_codeowners", "check_codeowners_file",
            "check_branch_protection", "generate_html_report", "done" >>
Pos(name) == CHOOSE k \in 1..Len(Order) : Order[k] = name
At == IF pc = "crashed" THEN error ELSE IF pc = "denied" THEN "get_org_repos" ELSE pc
Past(fn) == Pos(At) > Pos(fn)

EntriesFor(d, key) == {k \in 1..Len(d) : d[k].key = key}
IsSentinel(finding) == "Branch" \notin DOMAIN finding

\* C1: when __main__ has built the arguments of generate_html_report, every
\* repository get_org_repos returned has exactly one entry in codeowners_status,
\* holding exactly one finding, and exactly one entry in
\* branch_protection_summary, and neither dict has other entries.
C1_OneFindingPerRepository ==
    Past("check_branch_protection") =>
        /\ Len(codeowners_status) = Len(repos)
        /\ Len(branch_protection_summary) = Len(repos)
        /\ \A j \in 1..Len(repos) :
            /\ Cardinality(EntriesFor(codeowners_status, repos[j].name)) = 1
            /\ Cardinality(DOMAIN DictGet(codeowners_status, repos[j].name)) = 1
            /\ Cardinality(EntriesFor(branch_protection_summary, repos[j].name)) = 1

\* C1 witness: a report over two repositories, one of which got Permission
\* Denied from both of its checks.
C1_Witness ==
    /\ pc = "done"
    /\ Len(repos) >= 2
    /\ \E j \in 1..Len(repos) :
        /\ DictGet(codeowners_status, repos[j].name) = ("main" :> PyStr("Permission Denied"))
        /\ DictGet(branch_protection_summary, repos[j].name) = ("main" :> PyStr("Permission Denied"))

\* C2 (as claimed): no exception escapes a per-repository sub-check, so the
\* run never stops inside check_codeowners_file or check_branch_protection.
C2_SubCheckNeverAbortsRun ==
    ~(pc = "crashed" /\ error \in {"check_codeowners_file", "check_branch_protection"})

CollectionUrls ==
    {UsersUrl(ORG_NAME), OrgReposUrl(ORG_NAME), UserReposUrl(ORG_NAME),
     OrgMembersUrl(ORG_NAME), OrgAdminsUrl(ORG_NAME)}

\* C3 (as claimed): once an identity or collection request was answered 403
\* no report is written, and a written report never has 'Permission Denied'
\* in place of the member or code-owner list.
C3_PermissionDeniedStopsRun ==
    report.written =>
        /\ \A url \in CollectionUrls : <<url, 403>> \notin responses
        /\ members.t = "list"
        /\ codeowners.t = "list"

DefaultBranchOf(resp) == IF "default_branch" \in DOMAIN resp.json THEN resp.json.default_branch ELSE "main"
Probed(k) ==
    \E s \in Statuses :
        <<ContentsUrl(ORG_NAME, repos[idx].name, locations_to_check[k], DefaultBranchOf(args.branch)), s>>
            \in result.reqs
EarlierNotFound(k) == \A j \in 1..(k - 1) : args.contents[locations_to_check[j]].status = 404

\* C4: when a candidate answers 403 or another status than 200/404 and all
\* earlier candidates answered 404, the finding is that candidate's
\* Permission Denied / Error state, the candidate was probed and no later
\* one was, and the finding is not 'Not Set (File Missing)'.
C4_ErrorIsTerminal ==
    (pc = "returned" /\ ~result.exc) =>
        \A k \in 1..Len(locations_to_check) :
            LET r == args.contents[locations_to_check[k]]
                branch == DefaultBranchOf(args.branch) IN
            (r.status \notin {200, 404} /\ EarlierNotFound(k)) =>
                /\ result.value =
                    (branch :> PyStr(IF r.status = 403 THEN "Permission Denied"
                                     ELSE "Error Checking " \o locations_to_check[k]
                                            \o " for " \o branch \o " branch"))
                /\ result.value[branch] # PyStr("Not Set (File Missing)")
                /\ \A j \in 1..Len(locations_to_check) : Probed(j) <=> j <= k

\* C4 witness: 'CODEOWNERS' answers 500 after '.github/CODEOWNERS' answered
\* 404, while 'docs/CODEOWNERS' holds a valid file.
C4_Witness ==
    /\ pc = "returned"
    /\ ~result.exc
    /\ args.contents[".github/CODEOWNERS"].status = 404
    /\ args.contents["CODEOWNERS"].status = 500
    /\ args.contents["docs/CODEOWNERS"] = [status |-> 200, json |-> [content |-> "KiBAYWxpY2UK"]]
    /\ Probed(2)

ContentOf(resp) == IF "content" \in DOMAIN resp.json THEN resp.json.content ELSE ""

\* C5 (as claimed): the first candidate answering 200 (the earlier ones
\* answered 404) decides the finding and ends the probing: 'Set and Valid' when
\* its decoded content is non-empty after trimming, else 'Set but Invalid
\* (Empty)'; and the finding is 'Not Set (File Missing)' only when every
\* candidate answered 404.
C5_FirstSuccessDecides ==
    (pc = "returned" /\ ~result.exc) =>
        LET branch == DefaultBranchOf(args.branch) IN
        /\ \A k \in 1..Len(locations_to_check) :
            LET r == args.contents[locations_to_check[k]] IN
            (r.status = 200 /\ EarlierNotFound(k)) =>
                /\ result.value[branch] =
                        PyStr(IF Strip(B64Decode(ContentOf(r))) # <<>>
                              THEN "Set and Valid" ELSE "Set but Invalid (Empty)")
                /\ \A j \in 1..Len(locations_to_check) : Probed(j) <=> j <= k
        /\ result.value[branch] = PyStr("Not Set (File Missing)") =>
                EarlierNotFound(Len(locations_to_check) + 1)

RowsOf(repo, config) ==
    {k \in 1..Len(report.rows) : report.rows[k].repo = repo /\ report.rows[k].config = config}

\* The fixed policy on the value a finding holds for an attribute; a finding
\* without the attribute does not pass.
Passes(config, finding) ==
    /\ config \in DOMAIN finding
    /\ CASE config = "PR Approvals Required" -> finding[config].t = "int" /\ finding[config].n >= 2
         [] config \in {"Signed Commits", "Enforce Admins", "Required Conversation Resolution"} ->
                finding[config] = PyStr("Enabled")
         [] config \in {"Allow Force Pushes", "Allow Deletions"} ->
                finding[config] = PyStr("Disabled")

ProtectionConfigs ==
    {"PR Approvals Required", "Signed Commits", "Enforce Admins", "Allow Force Pushes",
     "Allow Deletions", "Required Conversation Resolution"}

\* C6: the written report has, for every repository and each of the seven
\* evaluated attributes, exactly one row, and the row is 'Correct' exactly
\* when the finding's value passes the policy: approvals >= 2, 'Enabled' for
\* signed commits / enforce admins / conversation resolution, 'Disabled' for
\* force pushes / deletions, 'Set and Valid' for CODEOWNERS.
C6_RowsFollowPolicy ==
    pc = "done" =>
        \A j \in 1..Len(repos) :
            LET repo == repos[j].name
                protection == DictGet(branch_protection_summary, repo)
                owners == DictGet(codeowners_status, repo) IN
            /\ \A config \in ProtectionConfigs :
                /\ Cardinality(RowsOf(repo, config)) = 1
                /\ \A k \in RowsOf(repo, config) :
                    (report.rows[k].status = "Correct") <=> Passes(config, protection)
            /\ Cardinality(RowsOf(repo, "CODEOWNERS Status")) = 1
            /\ \A k \in RowsOf(repo, "CODEOWNERS Status") :
                (report.rows[k].status = "Correct")
                    <=> (\A branch \in DOMAIN owners : owners[branch] = PyStr("Set and Valid"))

\* C6 witness: a report with a repository that requires exactly 2 approvals
\* (a passing row) and whose CODEOWNERS file is missing (a failing row).
C6_Witness ==
    /\ pc = "done"
    /\ \E j \in 1..Len(repos) :
        /\ Get(DictGet(branch_protection_summary, repos[j].name), "PR Approvals Required", PyNone)
                = PyInt(2)
        /\ DictGet(codeowners_status, repos[j].name) = ("main" :> PyStr("Not Set (File Missing)"))
        /\ \E k \in RowsOf(repos[j].name, "PR Approvals Required") : report.rows[k].status = "Correct"
        /\ \E k \in RowsOf(repos[j].name, "CODEOWNERS Status") : report.rows[k].status = "Incorrect"

\* C7: the finding of check_branch_protection is determined by the status
\* of the protection request and the four cases never coincide: the record
\* of named settings exactly for 200, 'No Protection' exactly for 404,
\* 'Permission Denied' exactly for 403, and the Error state carrying the
\* status code exactly for any other status.
C7_StatusDecidesFinding ==
    (pc = "returned" /\ ~result.exc) =>
        LET status == args.response.status
            branch == DefaultBranchOf(args.branch)
            finding == result.value IN
        /\ (status = 200) <=>
                (DOMAIN finding = ProtectionConfigs \cup {"Branch", "Dismiss Stale Reviews"})
        /\ (status = 404) <=> (finding = (branch :> PyStr("No Protection")))
        /\ (status = 403) <=> (finding = (branch :> PyStr("Permission Denied")))
        /\ (status \notin {200, 403, 404}) <=>
                (finding = (branch :> PyStr("Error Checking Protection (" \o ToString(status) \o ")")))

\* C7 witness: a protection request answered 404 on branch 'dev'.
C7_Witness ==
    /\ pc = "returned"
    /\ ~result.exc
    /\ args.response.status = 404
    /\ result.value = ("dev" :> PyStr("No Protection"))

AllAdmins == [j \in 1..upstream.nAdmins |-> MemberLogin(j)]

\* C8 (as claimed): for an organization, every collector that returned a
\* list returned every item of every page of its listing.
C8_CollectorsReturnCompleteSet ==
    kind = "Organization" =>
        /\ Past("get_org_repos") => repos = RepoItems(upstream.nRepos)
        /\ (Past("get_org_members") /\ members.t = "list") =>
                members.l = MemberItems(upstream.nMembers)
        /\ (Past("get_org_codeowners") /\ codeowners.t = "list") => codeowners.l = AllAdmins

\* Every type lookup made so far reported a plain user account.
ReportedAsUser ==
    /\ kind = "User"
    /\ \A s \in Statuses \ {200} : <<UsersUrl(ORG_NAME), s>> \notin responses

\* C9: for a target every type lookup reports as a user account, the
\* member list is exactly the target login, the code-owner list is empty,
\* the repositories are requested from /users/<target>/repos, and no
\* /orgs/<target>/... endpoint is requested.
C9_UserTarget ==
    ReportedAsUser =>
        /\ Past("get_org_members") => members = PyList(<< [login |-> ORG_NAME] >>)
        /\ Past("get_org_codeowners") => codeowners = PyList(<<>>)
        /\ pc # "get_org_repos" => \E s \in Statuses : <<UserReposUrl(ORG_NAME), s>> \in responses
        /\ \A s \in Statuses :
            /\ <<OrgReposUrl(ORG_NAME), s>> \notin responses
            /\ <<OrgMembersUrl(ORG_NAME), s>> \notin responses
            /\ <<OrgAdminsUrl(ORG_NAME), s>> \notin responses

\* C9 witness: a finished run on a user account with repositories.
C9_Witness ==
    /\ ReportedAsUser
    /\ pc = "done"
    /\ Len(repos) >= 1
    /\ report.members_total = 1
    /\ report.codeowners_total = 0

\* Whether the Current Value shown satisfies the Expected Value shown
Satisfies(current, expected) ==
    IF expected = "2+"
    THEN \E n \in 2..9 : current = ToString(n)
    ELSE current = expected

\* C10 (as claimed): every branch-protection row is 'Correct' exactly when
\* its Current Value satisfies its Expected Value, and the row of a
\* repository whose finding is a sentinel state shows that state.
C10_RowsSelfConsistent ==
    pc = "done" =>
        \A j \in 1..Len(repos) : \A config \in ProtectionConfigs : \A k \in RowsOf(repos[j].name, config) :
            LET row == report.rows[k]
                finding == DictGet(branch_protection_summary, repos[j].name) IN
            /\ (row.status = "Correct") <=> Satisfies(row.current, row.expected)
            /\ IsSentinel(finding) => \E branch \in DOMAIN finding : row.current = finding[branch].s

====
